---- MODULE Spec2Model ----
(***************************************************************************)
(* Model of the Wasatch.VCPP spectrometer driver: one Spectrometer         *)
(* (WasatchVCPPLib/Spectrometer.cpp) talking to its device over USB        *)
(* control and bulk transfers.                                             *)
(*                                                                         *)
(* Every operation of the Spectrometer is one action.  The USB device is   *)
(* the environment: it decides whether each control transfer succeeds,     *)
(* how a spectrum is chunked into bulk reads and which bytes it carries.   *)
(* `xfers' is the log of the transfers issued by the most recent call and  *)
(* `call' records that call's name, input and return value.                *)
(*                                                                         *)
(* Floats are modelled as exact rationals: a gain is a numerator over      *)
(* GainDen, a TEC coefficient a numerator over CoeffDen.                   *)
(***************************************************************************)
EXTENDS Integers, Sequences, FiniteSets, TLC

VARIABLES
    pid,                            \* USB product id of the opened device
    eeprom,                         \* the parsed calibration record
    pixels,                         \* Spectrometer::pixels
    integrationTimeMS,              \* Spectrometer::integrationTimeMS
    laserEnabled,                   \* Spectrometer::laserEnabled
    detectorTECSetpointHasBeenSet,  \* Spectrometer::detectorTECSetpointHasBeenSet
    call,                           \* the most recent call: op, arg, ret, ub
    xfers,                          \* the transfers that call issued, in order
    phase,                          \* "Constructing", "Ready" or "Closed" (udev released)
    wavelengths,                    \* Spectrometer::wavelengths, numerators over CoeffDen
    wavenumbers,                    \* Spectrometer::wavenumbers, whole 1/cm
    driver                          \* the Driver's spectrometers, by specIndex + 1

vars == <<pid, eeprom, pixels, integrationTimeMS, laserEnabled,
          detectorTECSetpointHasBeenSet, call, xfers,
          phase, wavelengths, wavenumbers, driver>>

object == <<phase, wavelengths, wavenumbers, driver>>
calib == <<pid, eeprom, pixels>>
live  == <<integrationTimeMS, laserEnabled, detectorTECSetpointHasBeenSet>>

----------------------------------------------------------------------------
(* Bounds of the model *)

MaxPixels == 3      \* detector widths 1..MaxPixels
GainDen   == 1024   \* gains are multiples of 1/GainDen
CoeffDen  == 4      \* TEC coefficients are multiples of 1/CoeffDen
MaxDevices == 2     \* spectrometers on the bus
MaxCloses  == 2     \* times one handle is released

----------------------------------------------------------------------------
(* Constants of Spectrometer.cpp *)

HOST_TO_DEVICE == 64
DEVICE_TO_HOST == 192
MIN_ARM_LEN    == 8
MAX_UINT24     == 16777216
CTRL_TIMEOUT_MS == 1000
SPECTRUM_EP    == 130

PID_ARM    == 16384
PID_INGAAS == 8192

OP_ACQUIRE              == 173
OP_INTEGRATION_TIME     == 178
OP_LASER_ENABLE         == 190
OP_DETECTOR_GAIN        == 183
OP_DETECTOR_GAIN_ODD    == 157
OP_DETECTOR_OFFSET      == 182
OP_DETECTOR_OFFSET_ODD  == 156
OP_TEC_ENABLE           == 214
OP_TEC_SETPOINT         == 216
OP_HIGH_GAIN_MODE       == 235

Bool2Int(flag) == IF flag THEN 1 ELSE 0

----------------------------------------------------------------------------
(* Utility *)

isARM == pid = PID_ARM

isInGaAs == pid = PID_INGAAS

isSuccess(opcode, result) == TRUE

\* variant: the upper limit is not applied
clampBelowOnly(value, min, max) == IF value < min THEN min ELSE value

clamp(value, min, max) ==
    IF value < min THEN min
    ELSE IF value > max THEN max
    ELSE value

----------------------------------------------------------------------------
(* Control messages *)

\* sendCmd(request, value, index) without payload; ok is the device's answer
sendCmd(request, value, index, ok) ==
    LET len == IF isARM THEN MIN_ARM_LEN ELSE 0
    IN  [kind    |-> "control",
         dir     |-> HOST_TO_DEVICE,
         req     |-> request,
         value   |-> value,
         index   |-> index,
         len     |-> len,
         timeout |-> CTRL_TIMEOUT_MS,
         result  |-> IF ok THEN len ELSE -1]

----------------------------------------------------------------------------
(* The calibration records and devices the model is run on *)

PIDs == {4096, PID_INGAAS, PID_ARM}

\* <<minTemperatureDegC, maxTemperatureDegC>>
TempRanges == {<<-1, 1>>, <<2, 1>>}

\* degCToDACCoeffs as numerators over CoeffDen
DACCoeffs == {<<9, -16, 1>>}

\* wavecalCoeffs as numerators over CoeffDen; the first puts pixel 0 at 0 nm
Wavecals == {<<0, 4, 0, 0, 0>>, <<3200, 2, 0, 0, 1>>}

\* excitationNM as a numerator over CoeffDen
Excitations == {-4, 0, 3140}

EEPROMs ==
    [hasCooling         : BOOLEAN,
     minTemperatureDegC : {r[1] : r \in TempRanges},
     maxTemperatureDegC : {r[2] : r \in TempRanges},
     degCToDACCoeffs    : DACCoeffs,
     activePixelsHoriz  : 1..MaxPixels,
     wavecalCoeffs      : Wavecals,
     excitationNM       : Excitations,
     detectorGain       : {973},
     detectorGainOdd    : {640},
     detectorOffset     : {0},
     detectorOffsetOdd  : {-1},
     adcToDegCCoeffs    : {<<-200, 4, 1>>}]

ValidTemps(e) == <<e.minTemperatureDegC, e.maxTemperatureDegC>> \in TempRanges

\* variant: the polynomial is evaluated at the 1-based pixel number
wavelengthAtOneBased(e, i) ==
      e.wavecalCoeffs[1]
    + e.wavecalCoeffs[2] * (i + 1)
    + e.wavecalCoeffs[3] * (i + 1) * (i + 1)
    + e.wavecalCoeffs[4] * (i + 1) * (i + 1) * (i + 1)
    + e.wavecalCoeffs[5] * (i + 1) * (i + 1) * (i + 1) * (i + 1)

\* the wavelength of pixel i (0-based), as a numerator over CoeffDen
wavelengthAt(e, i) ==
      e.wavecalCoeffs[1]
    + e.wavecalCoeffs[2] * i
    + e.wavecalCoeffs[3] * i * i
    + e.wavecalCoeffs[4] * i * i * i
    + e.wavecalCoeffs[5] * i * i * i * i

expandWavelengths(e) ==
    [k \in 1..e.activePixelsHoriz |-> wavelengthAt(e, k - 1)]

\* 1 / (nm * nmToCm) for nm = n / CoeffDen, in whole 1/cm
NM_PER_CM == 10000000
perCm(n) ==
    IF n > 0 THEN (NM_PER_CM * CoeffDen) \div n
             ELSE 0 - ((NM_PER_CM * CoeffDen) \div (0 - n))

\* variant: the axis is expanded whatever the excitation is
expandWavenumbersAlways(e, wl) ==
    [k \in 1..Len(wl) |->
        IF wl[k] # 0 /\ e.excitationNM # 0
        THEN perCm(e.excitationNM) - perCm(wl[k]) ELSE 0]

expandWavenumbers(e, wl) ==
    IF e.excitationNM > 0
    THEN [k \in 1..e.activePixelsHoriz |->
            IF wl[k] # 0 THEN perCm(e.excitationNM) - perCm(wl[k]) ELSE 0]
    ELSE <<>>

\* what an out-of-range float -> uint16_t conversion may produce
UBWords == {0, 65531}

----------------------------------------------------------------------------
(* Encodings *)

\* lsw / msw of a clamped integration time
integrationLSW(ms) == ms % 65536
integrationMSW(ms) == (ms \div 65536) % 256

\* variant: 256 itself is let through
gainAbove256(n) == n < 0 \/ n > 256 * GainDen

\* value < 0 || value >= 256, value = n / GainDen
gainOutOfDomain(n) == n < 0 \/ n >= 256 * GainDen

\* variant: the two bytes in the opposite order, (lsb << 8) | msb
gainWordSwapped(n) ==
    LET msb == (n \div GainDen) % 256
        lsb == (((n - msb * GainDen) * 256) \div GainDen) % 256
    IN  lsb * 256 + msb

\* (msb << 8) | lsb of a gain n / GainDen in [0, 256)
gainWord(n) ==
    LET msb == (n \div GainDen) % 256
        lsb == (((n - msb * GainDen) * 256) \div GainDen) % 256
    IN  msb * 256 + lsb

\* variant: the magnitude instead of the bit pattern
offsetMagnitude(value) == IF value < 0 THEN -value ELSE value

\* *((uint16_t*) &value) of an int16_t
offsetWord(value) == IF value < 0 THEN value + 65536 ELSE value

\* numerator over CoeffDen of the float dac
dacNumerator(e, degC) ==
      e.degCToDACCoeffs[1]
    + e.degCToDACCoeffs[2] * degC
    + e.degCToDACCoeffs[3] * degC * degC

\* (uint16_t)(dac + 0.5) is defined when -1 < dac + 0.5 < 65536
dacCastDefined(e, degC) ==
    LET t == 2 * dacNumerator(e, degC) + CoeffDen
    IN  t > -(2 * CoeffDen) /\ t < 65536 * 2 * CoeffDen

\* ((uint16_t)(dac + 0.5)) & 0xfff; u is what an undefined cast yields
dacWord(e, degC, u) ==
    LET t == 2 * dacNumerator(e, degC) + CoeffDen
        cast == IF ~dacCastDefined(e, degC) THEN u
                ELSE IF t < 0 THEN 0
                ELSE t \div (2 * CoeffDen)
    IN  cast % 4096

----------------------------------------------------------------------------
(* Inputs of the calls *)

IntegrationInputs == {0, 1, 70000, MAX_UINT24 - 1, MAX_UINT24, 2147483647}

\* gain numerators over GainDen: in and out of [0, 256)
GainInputs ==
    {-1, 0, 3, GainDen + 255, 2 * GainDen + (GainDen \div 2) + 1,
     256 * GainDen - 1, 256 * GainDen, 300 * GainDen}

OffsetInputs == {-32768, -256, -1, 0, 1, 32767}

SetpointInputs == {-2, -1, 0, 1, 2, 3}

----------------------------------------------------------------------------
(* Initial state: a constructed Spectrometer *)

Init ==
    /\ pid \in PIDs
    /\ eeprom \in {e \in EEPROMs : ValidTemps(e)}
    /\ pixels = eeprom.activePixelsHoriz
    /\ integrationTimeMS = 1
    /\ laserEnabled = FALSE
    /\ detectorTECSetpointHasBeenSet \in (IF eeprom.hasCooling THEN BOOLEAN ELSE {FALSE})
    /\ call = [op |-> "ctor", arg |-> 0, ret |-> TRUE, ub |-> FALSE]
    /\ xfers = <<>>
    /\ phase = "Ready"
    /\ wavelengths = expandWavelengths(eeprom)
    /\ wavenumbers = expandWavenumbers(eeprom, wavelengths)
    /\ driver = <<>>

Returned(op, arg, ret, ub) == [op |-> op, arg |-> arg, ret |-> ret, ub |-> ub]

----------------------------------------------------------------------------
(* Opcodes *)

setIntegrationTimeMS ==
    \E ms0 \in IntegrationInputs, ok \in BOOLEAN :
        LET ms     == clamp(ms0, 1, MAX_UINT24 - 1)
            x      == sendCmd(OP_INTEGRATION_TIME, integrationLSW(ms), integrationMSW(ms), ok)
        IN  /\ xfers' = <<x>>
            /\ integrationTimeMS' = ms
            /\ call' = Returned("setIntegrationTimeMS", ms0,
                                isSuccess(OP_INTEGRATION_TIME, x.result), FALSE)
            /\ UNCHANGED <<object, calib, laserEnabled, detectorTECSetpointHasBeenSet>>

setLaserEnable ==
    \E flag \in BOOLEAN, ok \in BOOLEAN :
        LET x == sendCmd(OP_LASER_ENABLE, Bool2Int(flag), 0, ok)
        IN  /\ xfers' = <<x>>
            /\ laserEnabled' = flag
            /\ call' = Returned("setLaserEnable", flag,
                                isSuccess(OP_LASER_ENABLE, x.result), FALSE)
            /\ UNCHANGED <<object, calib, integrationTimeMS, detectorTECSetpointHasBeenSet>>

\* the body shared by setDetectorGain (0xb7) and setDetectorGainOdd (0x9d)
gainCall(name, op, n, ok) ==
    IF gainOutOfDomain(n)
    THEN /\ xfers' = <<>>
         /\ call' = Returned(name, n, FALSE, FALSE)
    ELSE LET x == sendCmd(op, gainWord(n), 0, ok)
         IN  /\ xfers' = <<x>>
             /\ call' = Returned(name, n, isSuccess(op, x.result), FALSE)

setDetectorGain ==
    \E n \in GainInputs, ok \in BOOLEAN :
        /\ gainCall("setDetectorGain", OP_DETECTOR_GAIN, n, ok)
        /\ UNCHANGED <<object, calib, live>>

setDetectorGainOdd ==
    \E n \in GainInputs, ok \in BOOLEAN :
        /\ gainCall("setDetectorGainOdd", OP_DETECTOR_GAIN_ODD, n, ok)
        /\ UNCHANGED <<object, calib, live>>

setDetectorOffset ==
    \E value \in OffsetInputs, ok \in BOOLEAN :
        LET x == sendCmd(OP_DETECTOR_OFFSET, offsetWord(value), 0, ok)
        IN  /\ xfers' = <<x>>
            /\ call' = Returned("setDetectorOffset", value,
                                isSuccess(OP_DETECTOR_OFFSET, x.result), FALSE)
            /\ UNCHANGED <<object, calib, live>>

setDetectorOffsetOdd ==
    \E value \in OffsetInputs, ok \in BOOLEAN :
        LET x == sendCmd(OP_DETECTOR_OFFSET_ODD, offsetWord(value), 0, ok)
        IN  /\ xfers' = <<x>>
            /\ call' = Returned("setDetectorOffsetOdd", value,
                                isSuccess(OP_DETECTOR_OFFSET_ODD, x.result), FALSE)
            /\ UNCHANGED <<object, calib, live>>

\* variant: the cooling capability is not checked
tecSetpointUngated(degC, ok, u) ==
    IF degC < eeprom.minTemperatureDegC \/ degC > eeprom.maxTemperatureDegC
    THEN [ret |-> FALSE, xfers |-> <<>>, gate |-> detectorTECSetpointHasBeenSet, ub |-> FALSE]
    ELSE LET x == sendCmd(OP_TEC_SETPOINT, dacWord(eeprom, degC, u), 0, ok)
         IN  [ret   |-> isSuccess(OP_TEC_SETPOINT, x.result),
              xfers |-> <<x>>,
              gate  |-> TRUE,
              ub    |-> ~dacCastDefined(eeprom, degC)]

\* variant: the gate is written before the range is checked
tecSetpointGateFirst(degC, ok, u) ==
    IF ~eeprom.hasCooling
    THEN [ret |-> FALSE, xfers |-> <<>>, gate |-> detectorTECSetpointHasBeenSet, ub |-> FALSE]
    ELSE IF degC < eeprom.minTemperatureDegC \/ degC > eeprom.maxTemperatureDegC
    THEN [ret |-> FALSE, xfers |-> <<>>, gate |-> TRUE, ub |-> FALSE]
    ELSE LET x == sendCmd(OP_TEC_SETPOINT, dacWord(eeprom, degC, u), 0, ok)
         IN  [ret   |-> isSuccess(OP_TEC_SETPOINT, x.result),
              xfers |-> <<x>>,
              gate  |-> TRUE,
              ub    |-> ~dacCastDefined(eeprom, degC)]

\* variant: the gate is written only when the transfer went through
tecSetpointGateOnSuccess(degC, ok, u) ==
    IF ~eeprom.hasCooling
    THEN [ret |-> FALSE, xfers |-> <<>>, gate |-> detectorTECSetpointHasBeenSet, ub |-> FALSE]
    ELSE IF degC < eeprom.minTemperatureDegC \/ degC > eeprom.maxTemperatureDegC
    THEN [ret |-> FALSE, xfers |-> <<>>, gate |-> detectorTECSetpointHasBeenSet, ub |-> FALSE]
    ELSE LET x == sendCmd(OP_TEC_SETPOINT, dacWord(eeprom, degC, u), 0, ok)
         IN  [ret   |-> isSuccess(OP_TEC_SETPOINT, x.result),
              xfers |-> <<x>>,
              gate  |-> detectorTECSetpointHasBeenSet \/ x.result >= 0,
              ub    |-> ~dacCastDefined(eeprom, degC)]

\* setDetectorTECSetpointDegC(degC) as a function of the state: what it
\* returns, the transfers it issues and the gate it leaves
tecSetpoint(degC, ok, u) ==
    IF ~eeprom.hasCooling
    THEN [ret |-> FALSE, xfers |-> <<>>, gate |-> detectorTECSetpointHasBeenSet, ub |-> FALSE]
    ELSE IF degC < eeprom.minTemperatureDegC \/ degC > eeprom.maxTemperatureDegC
    THEN [ret |-> FALSE, xfers |-> <<>>, gate |-> detectorTECSetpointHasBeenSet, ub |-> FALSE]
    ELSE LET x == sendCmd(OP_TEC_SETPOINT, dacWord(eeprom, degC, u), 0, ok)
         IN  [ret   |-> isSuccess(OP_TEC_SETPOINT, x.result),
              xfers |-> <<x>>,
              gate  |-> TRUE,
              ub    |-> ~dacCastDefined(eeprom, degC)]

setDetectorTECSetpointDegC ==
    \E degC \in SetpointInputs, ok \in BOOLEAN, u \in UBWords :
        LET r == tecSetpoint(degC, ok, u)
        IN  /\ xfers' = r.xfers
            /\ detectorTECSetpointHasBeenSet' = r.gate
            /\ call' = Returned("setDetectorTECSetpointDegC", degC, r.ret, r.ub)
            /\ UNCHANGED <<object, calib, integrationTimeMS, laserEnabled>>

\* setTECEnable(flag) as a function of the state
tecEnable(flag, okSetpoint, u, okEnable) ==
    IF ~eeprom.hasCooling
    THEN [ret |-> FALSE, xfers |-> <<>>, gate |-> detectorTECSetpointHasBeenSet, ub |-> FALSE]
    ELSE LET needed == ~detectorTECSetpointHasBeenSet
             sp == tecSetpoint(eeprom.minTemperatureDegC, okSetpoint, u)
             x  == sendCmd(OP_TEC_ENABLE, Bool2Int(flag), 0, okEnable)
         IN  [ret   |-> isSuccess(OP_TEC_ENABLE, x.result),
              xfers |-> IF needed THEN sp.xfers \o <<x>> ELSE <<x>>,
              gate  |-> IF needed THEN sp.gate ELSE detectorTECSetpointHasBeenSet,
              ub    |-> needed /\ sp.ub]

setTECEnable ==
    \E flag \in BOOLEAN, okSetpoint \in BOOLEAN, u \in UBWords, okEnable \in BOOLEAN :
        LET r == tecEnable(flag, okSetpoint, u, okEnable)
        IN  /\ xfers' = r.xfers
            /\ detectorTECSetpointHasBeenSet' = r.gate
            /\ call' = Returned("setTECEnable", flag, r.ret, r.ub)
            /\ UNCHANGED <<object, calib, integrationTimeMS, laserEnabled>>

setHighGainMode ==
    \E flag \in BOOLEAN, ok \in BOOLEAN :
        /\ IF ~isInGaAs
           THEN /\ xfers' = <<>>
                /\ call' = Returned("setHighGainMode", flag, FALSE, FALSE)
           ELSE LET x == sendCmd(OP_HIGH_GAIN_MODE, Bool2Int(flag), 0, ok)
                IN  /\ xfers' = <<x>>
                    /\ call' = Returned("setHighGainMode", flag,
                                        isSuccess(OP_HIGH_GAIN_MODE, x.result), FALSE)
        /\ UNCHANGED <<object, calib, live>>

----------------------------------------------------------------------------
(* Acquisition *)

\* variant: the budget without the fixed margin
generateTimeoutMSNoMargin == 2 * integrationTimeMS

generateTimeoutMS == 2 * integrationTimeMS + 2000

\* frames the detector may report: a dark level of 0x0102 on every pixel
\* but at most one, which reads 0xff00
Frames ==
    {[i \in 1..pixels |-> IF i = k THEN 65280 ELSE 258] : k \in 0..pixels}

\* what reading past the end of the spectrum vector may yield
Garbage == {0, 12345}

\* the bytes of a frame of samples, low byte first
frameBytes(frame) ==
    [i \in 1..(2 * Len(frame)) |->
        IF i % 2 = 1 THEN frame[(i + 1) \div 2] % 256
                     ELSE frame[i \div 2] \div 256]

Streams == {frameBytes(f) : f \in Frames}

\* usb_bulk_read returns an error, nothing, or at most what was asked for
ReadResults(bytesLeftToRead) == {-1, 0} \cup (1..bytesLeftToRead)

\* the sequences of bulk-read results the read loop can consume
RECURSIVE Runs(_)
Runs(bytesLeftToRead) ==
    IF bytesLeftToRead <= 0 THEN {<<>>}
    ELSE UNION {IF r <= 0 \/ r % 2 # 0
                THEN {<<r>>}
                ELSE {<<r>> \o t : t \in Runs(bytesLeftToRead - r)}
                : r \in ReadResults(bytesLeftToRead)}

bulkRead(size, timeoutMS, bytesRead) ==
    [kind    |-> "bulk",
     dir     |-> DEVICE_TO_HOST,
     req     |-> SPECTRUM_EP,
     value   |-> 0,
     index   |-> 0,
     len     |-> size,
     timeout |-> timeoutMS,
     result  |-> bytesRead]

\* variant: high byte first
decodeChunkBigEndian(buf) ==
    [k \in 1..(Len(buf) \div 2) |-> (buf[2 * k - 1] * 256 + buf[2 * k]) % 65536]

\* the inner for loop: buf[i] | (buf[i + 1] << 8) for i = 0, 2, ...
decodeChunk(buf) ==
    [k \in 1..(Len(buf) \div 2) |-> (buf[2 * k - 1] + buf[2 * k] * 256) % 65536]

\* the while loop of getSpectrum; reads are the results of the bulk reads to
\* come, stream the bytes the device has yet to deliver
RECURSIVE readLoop(_, _, _, _, _, _, _)
readLoop(reads, stream, spectrum, totalBytesRead, bytesLeftToRead, timeoutMS, log) ==
    IF ~(totalBytesRead < totalBytesRead + bytesLeftToRead)
    THEN [spectrum |-> spectrum, log |-> log, total |-> totalBytesRead]
    ELSE LET bytesRead == Head(reads)
             log2 == Append(log, bulkRead(bytesLeftToRead, timeoutMS, bytesRead))
         IN  IF bytesRead <= 0
             THEN [spectrum |-> spectrum, log |-> log2, total |-> totalBytesRead]
             ELSE IF bytesRead % 2 # 0
             THEN [spectrum |-> spectrum, log |-> log2, total |-> totalBytesRead]
             ELSE readLoop(Tail(reads),
                           SubSeq(stream, bytesRead + 1, Len(stream)),
                           spectrum \o decodeChunk(SubSeq(stream, 1, bytesRead)),
                           totalBytesRead + bytesRead,
                           bytesLeftToRead - bytesRead,
                           timeoutMS, log2)

\* variant: no post-processing
keepFirstPixel(spectrum, g) == spectrum

\* post-processing: spectrum[0] = spectrum[1]; g is what spectrum[1] reads
\* when the vector holds a single value
stompFirstPixel(spectrum, g) ==
    IF Len(spectrum) >= 2
    THEN [spectrum EXCEPT ![1] = spectrum[2]]
    ELSE [spectrum EXCEPT ![1] = g]

getSpectrum ==
    \E okAcquire \in BOOLEAN, stream \in Streams, reads \in Runs(pixels * 2) :
        \E loop \in {readLoop(reads, stream, <<>>, 0, pixels * 2, generateTimeoutMS, <<>>)} :
        \E g \in (IF Len(loop.spectrum) = 1 THEN Garbage ELSE {0}) :
            /\ xfers' = <<sendCmd(OP_ACQUIRE, 0, 0, okAcquire)>> \o loop.log
            /\ call' = [op      |-> "getSpectrum",
                        arg     |-> [stream |-> stream, reads |-> reads],
                        decoded |-> loop.spectrum,
                        ret     |-> IF loop.spectrum = <<>> THEN <<>>
                                    ELSE stompFirstPixel(loop.spectrum, g),
                        ub      |-> Len(loop.spectrum) = 1]
            /\ UNCHANGED <<object, calib, live>>

----------------------------------------------------------------------------
(* Acquisition, one bulk read at a time *)

bytesExpected == pixels * 2

\* the locals of getSpectrum when it enters its while loop; pending is what
\* the device has yet to deliver
loopStart(stream) ==
    [op              |-> "getSpectrum.loop",
     arg             |-> stream,
     ret             |-> <<>>,
     ub              |-> FALSE,
     decoded         |-> <<>>,
     pending         |-> stream,
     totalBytesRead  |-> 0,
     bytesLeftToRead |-> bytesExpected,
     timeoutMS       |-> generateTimeoutMS,
     broke           |-> FALSE]

\* variant: every bulk read asks for the whole frame
requestSizeWhole(loc) == bytesExpected

\* the size handed to usb_bulk_read
requestSize(loc) == loc.bytesLeftToRead

\* the first n bytes the device delivers, zeros once the frame is through
delivered(pending, n) ==
    [i \in 1..n |-> IF i <= Len(pending) THEN pending[i] ELSE 0]

undelivered(pending, n) ==
    IF n >= Len(pending) THEN <<>> ELSE SubSeq(pending, n + 1, Len(pending))

\* one pass through the body of the while loop
readStep(loc, bytesRead) ==
    IF bytesRead <= 0
    THEN [loc EXCEPT !.broke = TRUE]
    ELSE IF bytesRead % 2 # 0
    THEN [loc EXCEPT !.broke = TRUE]
    ELSE [loc EXCEPT !.decoded = @ \o decodeChunk(delivered(loc.pending, bytesRead)),
                     !.pending = undelivered(@, bytesRead),
                     !.totalBytesRead = @ + bytesRead,
                     !.bytesLeftToRead = @ - bytesRead]

\* while (totalBytesRead < bytesExpected), unless a break left the loop
looping(loc) == ~loc.broke /\ loc.totalBytesRead < bytesExpected

getSpectrumBegin ==
    /\ call.op # "getSpectrum.loop"
    /\ \E okAcquire \in BOOLEAN, stream \in Streams :
        /\ xfers' = <<sendCmd(OP_ACQUIRE, 0, 0, okAcquire)>>
        /\ call' = loopStart(stream)
    /\ UNCHANGED <<object, calib, live>>

getSpectrumRead ==
    /\ call.op = "getSpectrum.loop"
    /\ looping(call)
    /\ \E bytesRead \in ReadResults(requestSize(call)) :
        /\ xfers' = Append(xfers, bulkRead(requestSize(call), call.timeoutMS, bytesRead))
        /\ call' = readStep(call, bytesRead)
    /\ UNCHANGED <<object, calib, live>>

getSpectrumEnd ==
    /\ call.op = "getSpectrum.loop"
    /\ ~looping(call)
    /\ \E g \in (IF Len(call.decoded) = 1 THEN Garbage ELSE {0}) :
        call' = [op      |-> "getSpectrum",
                 arg     |-> [stream |-> call.arg,
                              reads  |-> [i \in 1..(Len(xfers) - 1) |->
                                             xfers[i + 1].result]],
                 decoded |-> call.decoded,
                 ret     |-> IF call.decoded = <<>> THEN <<>>
                             ELSE stompFirstPixel(call.decoded, g),
                 ub      |-> Len(call.decoded) = 1]
    /\ UNCHANGED <<xfers, object, calib, live>>

----------------------------------------------------------------------------
(* Lifecycle: construction, version query, close *)

\* EEPROM::MAX_PAGES pages of EEPROM::PAGE_SIZE bytes; a version reply
MAX_PAGES == 8
PAGE_SIZE == 64
VERSION_LEN == 4
OP_GET_FIRMWARE_VERSION == 192
OP_GET_FPGA_VERSION == 180
OP_GET_DETECTOR_TEMPERATURE == 215
OP_SECOND_TIER == 255
GET_EEPROM_PAGE == 1
SET_START_LINE == 33
SET_STOP_LINE == 35

Max(a, b) == IF a >= b THEN a ELSE b

\* variant: the requested length is passed through on every family
getCmdUnfloored(request, value, index, len, result) ==
    [kind    |-> "control",
     dir     |-> DEVICE_TO_HOST,
     req     |-> request,
     value   |-> value,
     index   |-> index,
     len     |-> len,
     timeout |-> CTRL_TIMEOUT_MS,
     result  |-> result]

\* getCmd(request, value, index, len); `result' is what usb_control_msg
\* returned, the reply is that many bytes
getCmd(request, value, index, len, result) ==
    [kind    |-> "control",
     dir     |-> DEVICE_TO_HOST,
     req     |-> request,
     value   |-> value,
     index   |-> index,
     len     |-> IF isARM THEN Max(MIN_ARM_LEN, len) ELSE len,
     timeout |-> CTRL_TIMEOUT_MS,
     result  |-> result]

\* the bytes a device sends for its firmware version, least significant first
FirmwareBytes == <<7, 0, 1, 10>>

\* what the version queries can return: failure, a short reply, a full one
VersionResults == {-1, VERSION_LEN - 1, VERSION_LEN}

firmwareVersion(result) ==
    IF result >= 4
    THEN <<FirmwareBytes[4], FirmwareBytes[3], FirmwareBytes[2], FirmwareBytes[1]>>
    ELSE <<>>

getFirmwareVersion ==
    \E result \in VersionResults :
        /\ xfers' = <<getCmd(OP_GET_FIRMWARE_VERSION, 0, 0, VERSION_LEN, result)>>
        /\ call' = Returned("getFirmwareVersion", 0, firmwareVersion(result), FALSE)
        /\ UNCHANGED <<object, calib, live>>

\* the two bytes a device may send for its detector temperature
TemperatureBytes == {<<b0, b1>> : b0 \in {0, 1, 128}, b1 \in {0, 1, 255}}

\* what the temperature read can return: failure, nothing, one byte, two,
\* all that was asked for
TemperatureResults == {-1, 0, 1, 2, VERSION_LEN}

\* variant: the bytes taken low byte first
temperatureRawLittleEndian(data, result) ==
    IF result < 2 THEN -1 ELSE (data[1] + data[2] * 256) % 65536

\* getDetectorTemperatureRaw's value from the reply: `result' bytes of data
temperatureRaw(data, result) ==
    IF result < 2 THEN -1 ELSE (data[1] * 256 + data[2]) % 65536

getDetectorTemperatureRaw ==
    \E data \in TemperatureBytes, result \in TemperatureResults :
        /\ xfers' = <<getCmd(OP_GET_DETECTOR_TEMPERATURE, 0, 0, VERSION_LEN, result)>>
        /\ call' = [op |-> "getDetectorTemperatureRaw", arg |-> data,
                    ret |-> temperatureRaw(data, result), ub |-> FALSE]
        /\ UNCHANGED <<object, calib, live>>

\* adcToDegCCoeffs applied to raw, as a numerator over CoeffDen
adcToDegC(e, raw) ==
      e.adcToDegCCoeffs[1]
    + e.adcToDegCCoeffs[2] * raw
    + e.adcToDegCCoeffs[3] * raw * raw

\* what the caller of getDetectorTemperatureDegC receives after a good read:
\* the function initialises raw from itself and ends without a return, so
\* it is whatever the return register holds, maybe the polynomial of some word
LostDegC(e) ==
    {lost * CoeffDen : lost \in {-999, 0, 25}} \cup {adcToDegC(e, u) : u \in {0, 514}}

getDetectorTemperatureDegC ==
    \E data \in TemperatureBytes, result \in TemperatureResults :
        \E rawOrError \in {temperatureRaw(data, result)} :
        \E degC \in (IF rawOrError < 0 THEN {-999 * CoeffDen} ELSE LostDegC(eeprom)) :
            /\ xfers' = <<getCmd(OP_GET_DETECTOR_TEMPERATURE, 0, 0, VERSION_LEN, result)>>
            /\ call' = [op |-> "getDetectorTemperatureDegC", arg |-> data,
                        raw |-> rawOrError, ret |-> degC, ub |-> rawOrError >= 0]
            /\ UNCHANGED <<object, calib, live>>

\* initFirmwareVersions: both version queries
initFirmwareVersions(fw, fpga) ==
    <<getCmd(OP_GET_FIRMWARE_VERSION, 0, 0, VERSION_LEN, fw),
      getCmd(OP_GET_FPGA_VERSION, 0, 0, VERSION_LEN, fpga)>>

\* the record a device stores; a blank one declares no pixels
Images ==
    {e \in EEPROMs : e.minTemperatureDegC = -1 /\ e.maxTemperatureDegC = 1}
        \cup
    {[e EXCEPT !.activePixelsHoriz = 0] :
        e \in {f \in EEPROMs : /\ f.minTemperatureDegC = -1
                               /\ f.maxTemperatureDegC = 1
                               /\ f.activePixelsHoriz = 1
                               /\ f.wavecalCoeffs[1] = 0}}

\* the fields of an EEPROM object that parse() rejected: as constructed, or
\* as far as the decoding got
UnparsedEEPROMs ==
    {[hasCooling         |-> FALSE,
      minTemperatureDegC |-> 0,
      maxTemperatureDegC |-> 0,
      degCToDACCoeffs    |-> <<0, 0, 0>>,
      activePixelsHoriz  |-> 0,
      wavecalCoeffs      |-> <<0, 0, 0, 0, 0>>,
      excitationNM       |-> 0,
      detectorGain       |-> 0,
      detectorGainOdd    |-> 0,
      detectorOffset     |-> 0,
      detectorOffsetOdd  |-> 0,
      adcToDegCCoeffs    |-> <<0, 0, 0>>],
     [hasCooling         |-> TRUE,
      minTemperatureDegC |-> -1,
      maxTemperatureDegC |-> 1,
      degCToDACCoeffs    |-> <<9, -16, 1>>,
      activePixelsHoriz  |-> 1,
      wavecalCoeffs      |-> <<3200, 2, 0, 0, 1>>,
      excitationNM       |-> 3140,
      detectorGain       |-> 973,
      detectorGainOdd    |-> 0,
      detectorOffset     |-> 0,
      detectorOffsetOdd  |-> 0,
      adcToDegCCoeffs    |-> <<-200, 4, 1>>]}

\* the replies to the page reads: page `short' (1-based, 0 for none) comes
\* back with `got' bytes, every other page whole
PageReplies(short, got) ==
    [page \in 1..MAX_PAGES |-> IF page = short THEN got ELSE PAGE_SIZE]

\* no page short, the first one, the last one
ShortPages == {0, 1, MAX_PAGES}

\* readEEPROM's transfers: one read per page, page index in wIndex
readPages(replies) ==
    [page \in 1..MAX_PAGES |->
        getCmd(OP_SECOND_TIER, GET_EEPROM_PAGE, page - 1, PAGE_SIZE, replies[page])]

\* EEPROM::parse: every page whole and a positive pixel count
parse(replies, image) ==
    /\ \A page \in 1..MAX_PAGES : replies[page] = PAGE_SIZE
    /\ image.activePixelsHoriz > 0

\* the gain and offset pushes of the constructor
pushGain(op, n, ok) ==
    IF gainOutOfDomain(n) THEN <<>> ELSE <<sendCmd(op, gainWord(n), 0, ok)>>

pushDefaults(e, ok) ==
    pushGain(OP_DETECTOR_GAIN, e.detectorGain, ok)
        \o pushGain(OP_DETECTOR_GAIN_ODD, e.detectorGainOdd, ok)
        \o <<sendCmd(OP_DETECTOR_OFFSET, offsetWord(e.detectorOffset), 0, ok)>>
        \o <<sendCmd(OP_DETECTOR_OFFSET_ODD, offsetWord(e.detectorOffsetOdd), 0, ok)>>

\* initTEC: on a cooled detector the setpoint and the enable, or nothing
initTEC(e, start, ok, u) ==
    IF e.hasCooling /\ start
    THEN <<sendCmd(OP_TEC_SETPOINT, dacWord(e, e.minTemperatureDegC, u), 0, ok),
           sendCmd(OP_TEC_ENABLE, 1, 0, ok)>>
    ELSE <<>>

\* initVerticalROI: the start and stop line of the compact detectors
initVerticalROI(e, ok) ==
    IF isARM
    THEN <<sendCmd(OP_SECOND_TIER, SET_START_LINE, 0, ok),
           sendCmd(OP_SECOND_TIER, SET_STOP_LINE, 0, ok)>>
    ELSE <<>>

\* variant: a constructor that stops when readEEPROM fails
ctorStopsOnParseFailure(image, junk, replies, fw, fpga, ok, start, u) ==
    LET parsed == parse(replies, image)
        e      == IF parsed THEN image ELSE junk
        wl     == IF parsed THEN expandWavelengths(e) ELSE <<>>
    IN  [eeprom      |-> e,
         parsed      |-> parsed,
         wavelengths |-> wl,
         wavenumbers |-> IF parsed THEN expandWavenumbers(e, wl) ELSE <<>>,
         gate        |-> parsed /\ e.hasCooling /\ start,
         load        |-> initFirmwareVersions(fw, fpga) \o readPages(replies),
         prime       |-> IF parsed
                         THEN pushDefaults(e, ok) \o initTEC(e, start, ok, u)
                                  \o initVerticalROI(e, ok)
                         ELSE <<>>]

\* variant: the defaults are pushed before the EEPROM is read
ctorPushesBeforeLoad(image, junk, replies, fw, fpga, ok, start, u) ==
    LET parsed == parse(replies, image)
        e      == IF parsed THEN image ELSE junk
        wl     == expandWavelengths(e)
    IN  [eeprom      |-> e,
         parsed      |-> parsed,
         wavelengths |-> wl,
         wavenumbers |-> expandWavenumbers(e, wl),
         gate        |-> e.hasCooling /\ start,
         load        |-> initFirmwareVersions(fw, fpga) \o pushDefaults(e, ok)
                             \o readPages(replies),
         prime       |-> initTEC(e, start, ok, u) \o initVerticalROI(e, ok)]

\* the constructor as a function of what the device answers
ctorBody(image, junk, replies, fw, fpga, ok, start, u) ==
    LET parsed == parse(replies, image)
        e      == IF parsed THEN image ELSE junk
        wl     == expandWavelengths(e)
    IN  [eeprom      |-> e,
         parsed      |-> parsed,
         wavelengths |-> wl,
         wavenumbers |-> expandWavenumbers(e, wl),
         gate        |-> e.hasCooling /\ start,
         load        |-> initFirmwareVersions(fw, fpga) \o readPages(replies),
         prime       |-> pushDefaults(e, ok) \o initTEC(e, start, ok, u)
                             \o initVerticalROI(e, ok)]

ctor ==
    /\ phase = "Constructing"
    /\ \E image \in Images, junk \in UnparsedEEPROMs,
          short \in ShortPages, got \in {-1, PAGE_SIZE - 1},
          fw \in VersionResults, ok \in BOOLEAN, start \in BOOLEAN :
        \E c \in {ctorBody(image, junk, PageReplies(short, got), fw, fw, ok, start, 0)} :
            /\ eeprom' = c.eeprom
            /\ pixels' = c.eeprom.activePixelsHoriz
            /\ wavelengths' = c.wavelengths
            /\ wavenumbers' = c.wavenumbers
            /\ detectorTECSetpointHasBeenSet' = c.gate
            /\ xfers' = c.load \o c.prime
            /\ call' = [op |-> "ctor", arg |-> [image |-> image, short |-> short],
                        ret |-> c.parsed, loaded |-> Len(c.load), ub |-> FALSE]
            /\ phase' = "Ready"
            /\ UNCHANGED <<pid, integrationTimeMS, laserEnabled, driver>>

\* close(): the interface is released and the handle closed, whatever the
\* handle's state
close ==
    /\ phase # "Constructing"
    /\ phase' = "Closed"
    /\ xfers' = <<>>
    /\ call' = Returned("close", 0, TRUE, phase = "Closed")
    /\ UNCHANGED <<calib, live, wavelengths, wavenumbers, driver>>

----------------------------------------------------------------------------
(* The driver's spectrometers and the C interface over them *)

WP_SUCCESS == 0
WP_ERROR == -1
WP_ERROR_INVALID_SPECTROMETER == -2
WP_ERROR_INSUFFICIENT_STORAGE == -3
WP_ERROR_NO_LASER == -4
NO_TEMPERATURE == -999

\* the calibration stored in the d-th device on the bus
DeviceImage(d) ==
    [hasCooling         |-> d % 2 = 0,
     minTemperatureDegC |-> -1,
     maxTemperatureDegC |-> 1,
     degCToDACCoeffs    |-> <<9, -16, 1>>,
     activePixelsHoriz  |-> MaxPixels + 1 - d,
     wavecalCoeffs      |-> <<3200, 2, 0, 0, 1>>,
     excitationNM       |-> IF d % 2 = 1 THEN 3140 ELSE 0,
     detectorGain       |-> 973,
     detectorGainOdd    |-> 640,
     detectorOffset     |-> 0,
     detectorOffsetOdd  |-> -1,
     adcToDegCCoeffs    |-> <<-200, 4, 1>>]

\* the Spectrometer the driver holds for device d once it is constructed
NewSpectrometer(d) ==
    LET e  == DeviceImage(d)
        wl == expandWavelengths(e)
    IN  [dev          |-> d,
         eeprom       |-> e,
         pixels       |-> e.activePixelsHoriz,
         wavelengths  |-> wl,
         wavenumbers  |-> expandWavenumbers(e, wl),
         model        |-> <<87, 80, 48 + d>>,
         stringified  |-> [j \in 1..2 |-> 16 * d + j],
         laserEnabled |-> FALSE,
         releases     |-> 0]

\* Driver::openAllSpectrometers: one Spectrometer per device found, in bus order
openAllSpectrometers(n) == [i \in 1..n |-> NewSpectrometer(i)]

\* Driver::getNumberOfSpectrometers
getNumberOfSpectrometers == Len(driver)

\* Driver::getSpectrometer: the position of the Spectrometer in `driver',
\* 0 for nullptr
getSpectrometer(specIndex) ==
    IF 0 <= specIndex /\ specIndex < Len(driver) THEN specIndex + 1 ELSE 0

\* the indices callers pass: below, inside and above the enumerated range
SpecIndices == -1 .. MaxDevices

\* the record of a call through the C interface
Exported(op, specIndex, spec, ret, ub) ==
    [op |-> op, arg |-> specIndex, spec |-> spec, ret |-> ret, ub |-> ub]

\* Spectrometer::close on the Spectrometer at position k
released(k) ==
    [driver EXCEPT ![k].releases = @ + 1]

wp_open_all_spectrometers ==
    /\ call.op = "new"
    /\ \E n \in 0..MaxDevices :
        /\ driver' = openAllSpectrometers(n)
        /\ call' = Exported("wp_open_all_spectrometers", 0, 0, n, FALSE)
    /\ xfers' = <<>>
    /\ UNCHANGED <<phase, wavelengths, wavenumbers, calib, live>>

\* variant: closing a spectrometer takes it out of the driver's list
closeSpectrometerCompacting(specIndex) ==
    LET k == getSpectrometer(specIndex)
    IN  IF k = 0
        THEN [ret |-> WP_ERROR_INVALID_SPECTROMETER, driver |-> driver, ub |-> FALSE]
        ELSE [ret    |-> Bool2Int(TRUE),
              driver |-> SubSeq(released(k), 1, k - 1)
                            \o SubSeq(released(k), k + 1, Len(driver)),
              ub     |-> driver[k].releases > 0]

\* wp_close_spectrometer as a function of the driver's list
closeSpectrometer(specIndex) ==
    LET k == getSpectrometer(specIndex)
    IN  IF k = 0
        THEN [ret |-> WP_ERROR_INVALID_SPECTROMETER, driver |-> driver, ub |-> FALSE]
        ELSE [ret    |-> Bool2Int(TRUE),
              driver |-> released(k),
              ub     |-> driver[k].releases > 0]

wp_close_spectrometer ==
    \E specIndex \in SpecIndices :
        LET r == closeSpectrometer(specIndex)
        IN  /\ \A k \in 1..Len(r.driver) : r.driver[k].releases <= MaxCloses
            /\ driver' = r.driver
            /\ call' = Exported("wp_close_spectrometer", specIndex,
                                getSpectrometer(specIndex), r.ret, r.ub)
            /\ xfers' = <<>>
            /\ UNCHANGED <<phase, wavelengths, wavenumbers, calib, live>>

\* wp_close_all_spectrometers: wp_close_spectrometer(i) for every i below
\* the driver's count
closeAllSpectrometers ==
    [k \in 1..getNumberOfSpectrometers |->
        [driver[k] EXCEPT !.releases = @ + 1]]

wp_close_all_spectrometers ==
    /\ \A k \in 1..Len(driver) : driver[k].releases < MaxCloses
    /\ driver' = closeAllSpectrometers
    /\ call' = Exported("wp_close_all_spectrometers", 0, 0, WP_SUCCESS,
                        \E k \in 1..Len(driver) : driver[k].releases > 0)
    /\ xfers' = <<>>
    /\ UNCHANGED <<phase, wavelengths, wavenumbers, calib, live>>

wp_get_number_of_spectrometers ==
    /\ call.op # "new"
    /\ call' = Exported("wp_get_number_of_spectrometers", 0, 0,
                        getNumberOfSpectrometers, FALSE)
    /\ xfers' = <<>>
    /\ UNCHANGED <<object, calib, live>>

\* variant: a missing spectrometer is reported as a general failure
getPixelsGeneralFailure(specIndex) ==
    IF getSpectrometer(specIndex) = 0
    THEN WP_ERROR
    ELSE driver[getSpectrometer(specIndex)].pixels

getPixels(specIndex) ==
    IF getSpectrometer(specIndex) = 0
    THEN WP_ERROR_INVALID_SPECTROMETER
    ELSE driver[getSpectrometer(specIndex)].pixels

wp_get_pixels ==
    /\ call.op # "new"
    /\ \E specIndex \in SpecIndices :
        /\ call' = Exported("wp_get_pixels", specIndex, getSpectrometer(specIndex),
                            getPixels(specIndex), FALSE)
    /\ xfers' = <<>>
    /\ UNCHANGED <<object, calib, live>>

wp_set_laser_enable ==
    /\ call.op # "new"
    /\ \E specIndex \in SpecIndices, value \in BOOLEAN, ok \in BOOLEAN :
        LET k == getSpectrometer(specIndex)
            x == sendCmd(OP_LASER_ENABLE, Bool2Int(value), 0, ok)
        IN  IF k = 0
            THEN /\ call' = Exported("wp_set_laser_enable", specIndex, k,
                                     WP_ERROR_INVALID_SPECTROMETER, FALSE)
                 /\ xfers' = <<>>
                 /\ UNCHANGED driver
            ELSE /\ call' = Exported("wp_set_laser_enable", specIndex, k,
                                     IF isSuccess(OP_LASER_ENABLE, x.result)
                                     THEN WP_SUCCESS ELSE WP_ERROR,
                                     driver[k].releases > 0)
                 /\ xfers' = <<x>>
                 /\ driver' = [driver EXCEPT ![k].laserEnabled = value]
    /\ UNCHANGED <<phase, wavelengths, wavenumbers, calib, live>>

\* what a float function that ends without a return statement hands back
LostReturns == {NO_TEMPERATURE, 0, 25}

wp_get_detector_temperature_deg_c ==
    /\ call.op # "new"
    /\ \E specIndex \in SpecIndices, result \in {-1, 2}, lost \in LostReturns :
        LET k == getSpectrometer(specIndex)
            x == getCmd(OP_GET_DETECTOR_TEMPERATURE, 0, 0, VERSION_LEN, result)
        IN  IF k = 0
            THEN /\ call' = Exported("wp_get_detector_temperature_deg_c", specIndex, k,
                                     NO_TEMPERATURE, FALSE)
                 /\ xfers' = <<>>
            ELSE /\ call' = Exported("wp_get_detector_temperature_deg_c", specIndex, k,
                                     IF result < 2 THEN NO_TEMPERATURE ELSE lost,
                                     result >= 2 \/ driver[k].releases > 0)
                 /\ xfers' = <<x>>
    /\ UNCHANGED <<object, calib, live>>

----------------------------------------------------------------------------
(* Calls that copy into a caller's buffer *)

\* the caller's memory: cells 1..len are the buffer, the cells after it are
\* not the callee's to write; every cell starts out as Stale
Stale == -7
MemCells == MaxPixels + 2
\* capacities around the sizes copied: none, one, and the widest detector's
\* pixel count less one, exactly, plus one
Lens == {0, 1, MaxPixels - 1, MaxPixels, MaxPixels + 1}
FreshMem == [c \in 1..MemCells |-> Stale]

\* variant: the loop copies every item
RECURSIVE copyLoopUnbounded(_, _, _, _)
copyLoopUnbounded(items, mem, len, i) ==
    IF i >= Len(items)
    THEN [ret |-> WP_SUCCESS, mem |-> mem]
    ELSE copyLoopUnbounded(items, [mem EXCEPT ![i + 1] = items[i + 1]], len, i + 1)

\* for (i = 0; i < items.size(); i++) if (i < len) buf[i] = items[i]; else
\* return WP_ERROR_INSUFFICIENT_STORAGE;
RECURSIVE copyLoop(_, _, _, _)
copyLoop(items, mem, len, i) ==
    IF i >= Len(items)
    THEN [ret |-> WP_SUCCESS, mem |-> mem]
    ELSE IF i < len
    THEN copyLoop(items, [mem EXCEPT ![i + 1] = items[i + 1]], len, i + 1)
    ELSE [ret |-> WP_ERROR_INSUFFICIENT_STORAGE, mem |-> mem]

\* memset(buf, 0, len), then the copy loop
exportString(str, mem, len) ==
    copyLoop(str, [c \in 1..MemCells |-> IF c <= len THEN 0 ELSE mem[c]], len, 0)

\* the record of a call that copies `items' out
Copied(op, specIndex, spec, len, items, r, ub) ==
    [op |-> op, arg |-> specIndex, spec |-> spec, len |-> len, k |-> Len(items),
     ret |-> r.ret, mem |-> r.mem, ub |-> ub]

NoSpectrometer == [ret |-> WP_ERROR_INVALID_SPECTROMETER, mem |-> FreshMem]

wp_get_model ==
    /\ \E specIndex \in SpecIndices, len \in Lens :
        LET k == getSpectrometer(specIndex)
        IN  call' = IF k = 0
                    THEN Copied("wp_get_model", specIndex, k, len, <<>>, NoSpectrometer, FALSE)
                    ELSE Copied("wp_get_model", specIndex, k, len, driver[k].model,
                                exportString(driver[k].model, FreshMem, len), FALSE)
    /\ xfers' = <<>>
    /\ UNCHANGED <<object, calib, live>>

wp_get_wavelengths ==
    /\ \E specIndex \in SpecIndices, len \in Lens :
        LET k == getSpectrometer(specIndex)
        IN  call' = IF k = 0
                    THEN Copied("wp_get_wavelengths", specIndex, k, len, <<>>,
                                NoSpectrometer, FALSE)
                    ELSE Copied("wp_get_wavelengths", specIndex, k, len,
                                driver[k].wavelengths,
                                copyLoop(driver[k].wavelengths, FreshMem, len, 0), FALSE)
    /\ xfers' = <<>>
    /\ UNCHANGED <<object, calib, live>>

\* variant: only a negative excitation counts as no laser
getWavenumbersNegativeOnly(k, len) ==
    IF k = 0 THEN NoSpectrometer
    ELSE IF driver[k].eeprom.excitationNM < 0
    THEN [ret |-> WP_ERROR_NO_LASER, mem |-> FreshMem]
    ELSE copyLoop(driver[k].wavenumbers, FreshMem, len, 0)

\* wp_get_wavenumbers on the Spectrometer at position k (0: nullptr)
getWavenumbers(k, len) ==
    IF k = 0 THEN NoSpectrometer
    ELSE IF driver[k].eeprom.excitationNM <= 0
    THEN [ret |-> WP_ERROR_NO_LASER, mem |-> FreshMem]
    ELSE copyLoop(driver[k].wavenumbers, FreshMem, len, 0)

wp_get_wavenumbers ==
    /\ \E specIndex \in SpecIndices, len \in Lens :
        LET k == getSpectrometer(specIndex)
        IN  call' = Copied("wp_get_wavenumbers", specIndex, k, len,
                           IF k = 0 THEN <<>> ELSE driver[k].wavenumbers,
                           getWavenumbers(k, len), FALSE)
    /\ xfers' = <<>>
    /\ UNCHANGED <<object, calib, live>>

\* the frame the device at position k reports: 0x0102, 0x0204, ...
deviceStream(k) == frameBytes([i \in 1..driver[k].pixels |-> 258 * i])

wp_get_spectrum ==
    \E specIndex \in SpecIndices, len \in Lens :
        LET k == getSpectrometer(specIndex)
        IN  IF k = 0
            THEN /\ call' = Copied("wp_get_spectrum", specIndex, k, len, <<>>,
                                   NoSpectrometer, FALSE)
                 /\ xfers' = <<>>
                 /\ UNCHANGED <<object, calib, live>>
            ELSE \E okAcquire \in BOOLEAN, reads \in Runs(driver[k].pixels * 2) :
                 \E loop \in {readLoop(reads, deviceStream(k), <<>>, 0,
                                       driver[k].pixels * 2, generateTimeoutMS, <<>>)} :
                 \E g \in (IF Len(loop.spectrum) = 1 THEN Garbage ELSE {0}) :
                 \E intensities \in {IF loop.spectrum = <<>> THEN <<>>
                                     ELSE stompFirstPixel(loop.spectrum, g)} :
                    /\ xfers' = <<sendCmd(OP_ACQUIRE, 0, 0, okAcquire)>> \o loop.log
                    /\ call' = Copied("wp_get_spectrum", specIndex, k, len, intensities,
                                      IF intensities = <<>>
                                      THEN [ret |-> WP_ERROR, mem |-> FreshMem]
                                      ELSE copyLoop(intensities, FreshMem, len, 0),
                                      Len(loop.spectrum) = 1)
                    /\ UNCHANGED <<object, calib, live>>

\* for each entry: if (count >= len) return WP_ERROR_INSUFFICIENT_STORAGE;
\* names[count] and values[count] are written together, one cell here
wp_get_eeprom ==
    /\ \E specIndex \in SpecIndices, len \in Lens :
        LET k == getSpectrometer(specIndex)
        IN  call' = IF k = 0
                    THEN Copied("wp_get_eeprom", specIndex, k, len, <<>>,
                                NoSpectrometer, FALSE)
                    ELSE Copied("wp_get_eeprom", specIndex, k, len,
                                driver[k].stringified,
                                copyLoop(driver[k].stringified, FreshMem, len, 0), FALSE)
    /\ xfers' = <<>>
    /\ UNCHANGED <<object, calib, live>>

----------------------------------------------------------------------------
(* Specifications *)

Settors ==
    \/ setIntegrationTimeMS
    \/ setLaserEnable
    \/ setDetectorGain
    \/ setDetectorGainOdd
    \/ setDetectorOffset
    \/ setDetectorOffsetOdd
    \/ setDetectorTECSetpointDegC
    \/ setTECEnable
    \/ setHighGainMode

Next ==
    \/ Settors
    \/ getSpectrum

Spec == Init /\ [][Next]_vars

\* the command vocabulary on every device family and calibration
SettorsInit ==
    /\ Init
    /\ pixels = MaxPixels
    /\ eeprom.excitationNM = 0
    /\ eeprom.wavecalCoeffs[1] = 0

SpecSettors == SettorsInit /\ [][Settors]_vars

\* acquisition on every detector width; the TEC calibration is not read
AcquireInit ==
    /\ Init
    /\ ~eeprom.hasCooling
    /\ eeprom.minTemperatureDegC = -1
    /\ eeprom.excitationNM = 0
    /\ eeprom.wavecalCoeffs[1] = 0

Acquire ==
    \/ setIntegrationTimeMS
    \/ getSpectrum

SpecAcquire == AcquireInit /\ [][Acquire]_vars

\* one Spectrometer from construction to close
LifecycleInit ==
    /\ pid \in PIDs
    /\ eeprom \in {e \in UnparsedEEPROMs : e.activePixelsHoriz = 0}
    /\ pixels = 0
    /\ integrationTimeMS = 1
    /\ laserEnabled = FALSE
    /\ detectorTECSetpointHasBeenSet = FALSE
    /\ call = [op |-> "new", arg |-> 0, ret |-> TRUE, ub |-> FALSE]
    /\ xfers = <<>>
    /\ phase = "Constructing"
    /\ wavelengths = <<>>
    /\ wavenumbers = <<>>
    /\ driver = <<>>

Lifecycle ==
    \/ ctor
    \/ close
    \/ phase # "Constructing" /\ getFirmwareVersion
    \/ phase # "Constructing" /\ setLaserEnable
    \/ phase # "Constructing" /\ setDetectorTECSetpointDegC

SpecLifecycle == LifecycleInit /\ [][Lifecycle]_vars

\* the C interface over one enumeration of the bus; the devices are of
\* one family, `pid'
RegistryInit ==
    /\ LifecycleInit
    /\ eeprom.activePixelsHoriz = 0

Registry ==
    \/ wp_open_all_spectrometers
    \/ wp_close_spectrometer
    \/ wp_close_all_spectrometers
    \/ wp_get_number_of_spectrometers
    \/ wp_get_pixels
    \/ wp_set_laser_enable
    \/ wp_get_detector_temperature_deg_c

SpecRegistry == RegistryInit /\ [][Registry]_vars

\* the copying calls after an enumeration that found at least one device
ExportInit ==
    /\ pid \in {4096, PID_ARM}
    /\ eeprom \in {e \in UnparsedEEPROMs : e.activePixelsHoriz = 0}
    /\ pixels = 0
    /\ integrationTimeMS = 1
    /\ laserEnabled = FALSE
    /\ detectorTECSetpointHasBeenSet = FALSE
    /\ \E n \in 1..MaxDevices :
        /\ driver = openAllSpectrometers(n)
        /\ call = Exported("wp_open_all_spectrometers", 0, 0, n, FALSE)
    /\ xfers = <<>>
    /\ phase = "Constructing"
    /\ wavelengths = <<>>
    /\ wavenumbers = <<>>

Export ==
    \/ wp_get_model
    \/ wp_get_wavelengths
    \/ wp_get_wavenumbers
    \/ wp_get_spectrum
    \/ wp_get_eeprom

SpecExport == ExportInit /\ [][Export]_vars

\* the gettors on every device family
Gettors ==
    \/ getFirmwareVersion
    \/ getDetectorTemperatureRaw
    \/ getDetectorTemperatureDegC

SpecGettors == SettorsInit /\ [][Gettors]_vars

\* one acquisition after another, the read loop one bulk read per step; a
\* bulk read that was issued returns, and the method runs on to its return
ReadLoop ==
    \/ getSpectrumBegin
    \/ getSpectrumRead
    \/ getSpectrumEnd

SpecReadLoop ==
    /\ AcquireInit
    /\ [][ReadLoop]_vars
    /\ WF_vars(getSpectrumRead)
    /\ WF_vars(getSpectrumEnd)

----------------------------------------------------------------------------
(* Vocabulary of the properties *)

SettorNames ==
    {"setIntegrationTimeMS", "setLaserEnable", "setDetectorGain", "setDetectorGainOdd",
     "setDetectorOffset", "setDetectorOffsetOdd", "setTECEnable",
     "setDetectorTECSetpointDegC", "setHighGainMode"}

GainNames == {"setDetectorGain", "setDetectorGainOdd"}

OffsetNames == {"setDetectorOffset", "setDetectorOffsetOdd"}

RECURSIVE SumSeq(_)
SumSeq(q) == IF q = <<>> THEN 0 ELSE Head(q) + SumSeq(Tail(q))

\* a bulk-read result that makes the read loop give up
BadRead(r) == r <= 0 \/ r % 2 # 0

\* the last call was a getSpectrum one of whose bulk reads was bad
AbortedAcquisition ==
    /\ call.op = "getSpectrum"
    /\ \E i \in DOMAIN call.arg.reads : BadRead(call.arg.reads[i])

\* the last call was a getSpectrum whose bulk reads were all positive and
\* even and delivered pixels * 2 bytes
CompleteAcquisition ==
    /\ call.op = "getSpectrum"
    /\ \A i \in DOMAIN call.arg.reads : ~BadRead(call.arg.reads[i])
    /\ SumSeq(call.arg.reads) = pixels * 2

\* the i-th raw sample of the byte stream the device delivered
RawSample(i) == call.arg.stream[2 * i - 1] + 256 * call.arg.stream[2 * i]

----------------------------------------------------------------------------
(* C1: getSpectrum returns an empty sequence whenever one of its bulk reads *)
(* returns <= 0 bytes or an odd byte count, also after earlier reads of the *)
(* same acquisition delivered valid chunks.                                 *)

C1_AbortReturnsEmpty == AbortedAcquisition => call.ret = <<>>

(* C2: after a complete acquisition of n >= 2 pixels with raw samples r,   *)
(* getSpectrum returns s with s[0] = r[1] and s[i] = r[i] for 1 <= i < n.  *)

C2_FirstPixelStomped ==
    (CompleteAcquisition /\ pixels >= 2) =>
        /\ Len(call.ret) = pixels
        /\ call.ret[1] = RawSample(2)
        /\ \A i \in 2..pixels : call.ret[i] = RawSample(i)

C2_Witness ==
    /\ CompleteAcquisition
    /\ pixels >= 2
    /\ RawSample(1) # RawSample(2)
    /\ call.ret[1] = RawSample(2)

(* C3: when the bulk reads deliver exactly pixels * 2 bytes in positive    *)
(* even chunks, the sequence decoded before post-processing has length     *)
(* pixels and its i-th value is byte[2i] + 256 * byte[2i+1] of the stream, *)
(* however the transport chunked it.                                       *)

C3_DecodedLittleEndian ==
    CompleteAcquisition =>
        /\ Len(call.decoded) = pixels
        /\ \A i \in 1..pixels : call.decoded[i] = RawSample(i)

C3_Witness ==
    /\ CompleteAcquisition
    /\ Len(call.arg.reads) >= 2
    /\ Len(call.decoded) = pixels
    /\ \E i \in 1..pixels : call.decoded[i] = 258

(* C4: after setIntegrationTimeMS(ms) the stored integration time is ms    *)
(* clamped into [1, 2^24 - 1].                                             *)

C4_IntegrationTimeClamped ==
    call.op = "setIntegrationTimeMS" =>
        /\ integrationTimeMS \in 1..16777215
        /\ call.arg < 1 => integrationTimeMS = 1
        /\ call.arg > 16777215 => integrationTimeMS = 16777215
        /\ call.arg \in 1..16777215 => integrationTimeMS = call.arg

C4_Witness ==
    /\ call.op = "setIntegrationTimeMS"
    /\ call.arg = 16777216
    /\ integrationTimeMS = 16777215

(* C5: a settor that issues a control transfer reports success when the    *)
(* transfer succeeds and failure when it fails (negative result).          *)

C5_SettorReportsTransfer ==
    (call.op \in SettorNames /\ xfers # <<>>) =>
        (call.ret <=> xfers[Len(xfers)].result >= 0)

(* C6: a gain outside [0, 256) makes setDetectorGain and                   *)
(* setDetectorGainOdd return failure without issuing any transfer.         *)

C6_GainOutOfDomainRejected ==
    (call.op \in GainNames /\ (call.arg < 0 \/ call.arg >= 256 * GainDen)) =>
        /\ call.ret = FALSE
        /\ xfers = <<>>

C6_Witness ==
    /\ call.op = "setDetectorGainOdd"
    /\ call.arg = 256 * GainDen
    /\ call.ret = FALSE
    /\ xfers = <<>>

(* C7: for a gain v in [0, 256) the transmitted word w decodes, as         *)
(* (w >> 8) + (w & 0xff) / 256, to within 1/256 of v.                      *)

C7_GainRoundTrip ==
    (call.op \in GainNames /\ call.arg >= 0 /\ call.arg < 256 * GainDen) =>
        /\ Len(xfers) = 1
        /\ LET w == xfers[1].value
               \* (v - decoded) * 256 * GainDen
               d == 256 * call.arg - ((w \div 256) * 256 + (w % 256)) * GainDen
           IN  /\ w \in 0..65535
               /\ d <= GainDen
               /\ -d <= GainDen

C7_Witness ==
    /\ call.op = "setDetectorGain"
    /\ call.arg = 2 * GainDen + (GainDen \div 2) + 1
    /\ Len(xfers) = 1
    /\ xfers[1].value \div 256 = 2

(* C8: for a signed 16-bit offset x the word transmitted by                *)
(* setDetectorOffset and setDetectorOffsetOdd is x mod 2^16, and two calls *)
(* that transmit the same word were given the same offset.                 *)

C8_OffsetBitPattern ==
    [][call'.op \in OffsetNames =>
        /\ Len(xfers') = 1
        /\ xfers'[1].value = call'.arg % 65536
        /\ xfers'[1].value \in 0..65535
        /\ (call.op \in OffsetNames /\ xfers[1].value = xfers'[1].value)
              => call.arg = call'.arg]_vars

C8_Witness ==
    /\ call.op = "setDetectorOffsetOdd"
    /\ call.arg = -1
    /\ xfers[1].value = 65535

\* the DAC code of the calibrated minimum temperature:
\* d0 + d1 * min + d2 * min^2, plus one half, truncated, low 12 bits
MinTemperatureDAC ==
    LET m == eeprom.minTemperatureDegC
        n == eeprom.degCToDACCoeffs[1] + eeprom.degCToDACCoeffs[2] * m
             + eeprom.degCToDACCoeffs[3] * m * m
    IN  ((2 * n + CoeffDen) \div (2 * CoeffDen)) % 4096

(* C9: on a cooling-capable Spectrometer whose setpoint was never set,     *)
(* setTECEnable(true) issues the TEC-setpoint transfer carrying the DAC    *)
(* code of the calibrated minimum temperature and then the TEC-enable      *)
(* transfer.                                                               *)

C9_SetpointBeforeEnable ==
    [][(/\ call'.op = "setTECEnable"
        /\ call'.arg = TRUE
        /\ eeprom.hasCooling
        /\ ~detectorTECSetpointHasBeenSet) =>
        /\ Len(xfers') = 2
        /\ xfers'[1].req = OP_TEC_SETPOINT
        /\ xfers'[1].value = MinTemperatureDAC
        /\ xfers'[2].req = OP_TEC_ENABLE
        /\ xfers'[2].value = 1]_vars

\* the operation needs a capability this device does not have
LacksCapability(op) ==
    \/ op \in {"setTECEnable", "setDetectorTECSetpointDegC"} /\ ~eeprom.hasCooling
    \/ op = "setHighGainMode" /\ pid # 8192

(* C10: setTECEnable and setDetectorTECSetpointDegC on a calibration       *)
(* without cooling, and setHighGainMode on a device that is not InGaAs,    *)
(* return failure, issue no transfer and leave the setpoint gate as it was.*)

C10_CapabilityGated ==
    [][LacksCapability(call'.op) =>
        /\ call'.ret = FALSE
        /\ xfers' = <<>>
        /\ detectorTECSetpointHasBeenSet' = detectorTECSetpointHasBeenSet]_vars

C10_Witness ==
    /\ call.op = "setDetectorTECSetpointDegC"
    /\ ~eeprom.hasCooling
    /\ call.arg >= eeprom.minTemperatureDegC
    /\ call.arg <= eeprom.maxTemperatureDegC
    /\ call.ret = FALSE
    /\ xfers = <<>>

(* C11: setDetectorTECSetpointDegC(degC) with degC below the calibrated    *)
(* minimum or above the calibrated maximum returns failure, issues no      *)
(* transfer and does not set the setpoint gate.                            *)

C11_SetpointOutOfRangeRejected ==
    [][(/\ call'.op = "setDetectorTECSetpointDegC"
        /\ \/ call'.arg < eeprom.minTemperatureDegC
           \/ call'.arg > eeprom.maxTemperatureDegC) =>
        /\ call'.ret = FALSE
        /\ xfers' = <<>>
        /\ detectorTECSetpointHasBeenSet' = detectorTECSetpointHasBeenSet]_vars

C11_Witness ==
    /\ call.op = "setDetectorTECSetpointDegC"
    /\ eeprom.hasCooling
    /\ eeprom.minTemperatureDegC <= eeprom.maxTemperatureDegC
    /\ call.arg > eeprom.maxTemperatureDegC
    /\ call.ret = FALSE
    /\ xfers = <<>>
    /\ ~detectorTECSetpointHasBeenSet

(* C12: after setDetectorTECSetpointDegC with an in-range degC on a        *)
(* cooling-capable Spectrometer the setpoint gate is true, whether the     *)
(* control transfer succeeded or failed.                                   *)

C12_GateSetRegardlessOfTransfer ==
    (/\ call.op = "setDetectorTECSetpointDegC"
     /\ eeprom.hasCooling
     /\ call.arg >= eeprom.minTemperatureDegC
     /\ call.arg <= eeprom.maxTemperatureDegC) =>
        /\ detectorTECSetpointHasBeenSet
        /\ Len(xfers) = 1

C12_Witness ==
    /\ call.op = "setDetectorTECSetpointDegC"
    /\ eeprom.hasCooling
    /\ call.arg >= eeprom.minTemperatureDegC
    /\ call.arg <= eeprom.maxTemperatureDegC
    /\ Len(xfers) = 1
    /\ xfers[1].result < 0
    /\ detectorTECSetpointHasBeenSet

(* C13: when the EEPROM image does not parse into a valid calibration      *)
(* record (a page missing or truncated, or activePixelsHoriz <= 0) the     *)
(* construction fails: no Spectrometer becomes Ready and none of the       *)
(* post-load steps (axis expansion, gain and offset pushes, TEC            *)
(* initialisation, ROI priming) is performed.                              *)

C13_UnparsedRecordFailsConstruction ==
    (call.op = "ctor" /\ ~call.ret) =>
        /\ phase # "Ready"
        /\ Len(xfers) = call.loaded
        /\ wavelengths = <<>>
        /\ wavenumbers = <<>>

(* C14: a Spectrometer moves only Constructing -> Ready -> Closed, and     *)
(* after close() no later settor, gettor or getSpectrum call on it         *)
(* performs a control or bulk transfer on the released handle.             *)

C14_NoTransferAfterClose ==
    [][/\ <<phase, phase'>> \in {<<"Constructing", "Ready">>, <<"Ready", "Ready">>,
                                 <<"Ready", "Closed">>, <<"Closed", "Closed">>}
       /\ (phase = "Closed" /\ call'.op # "close") => xfers' = <<>>]_vars

(* C19: after construction the wavenumber array is empty when the          *)
(* calibrated excitation is <= 0 and has length pixels otherwise, the      *)
(* wavelength array has length pixels, and no later operation changes      *)
(* either length.                                                          *)

C19_AxisLengths ==
    /\ [](phase # "Constructing" =>
            /\ Len(wavelengths) = pixels
            /\ Len(wavenumbers) = IF eeprom.excitationNM > 0 THEN pixels ELSE 0)
    /\ [][phase # "Constructing" =>
            /\ Len(wavelengths') = Len(wavelengths)
            /\ Len(wavenumbers') = Len(wavenumbers)]_vars

C19_Witness ==
    /\ phase = "Closed"
    /\ call.op = "setLaserEnable"
    /\ pixels = MaxPixels
    /\ eeprom.excitationNM < 0
    /\ Len(wavelengths) = MaxPixels
    /\ wavenumbers = <<>>

(* C15: closing the spectrometer at one index never changes which device   *)
(* any index refers to: after wp_close_spectrometer(k) the driver holds as *)
(* many spectrometers as before, every index resolves to the same device   *)
(* and every index j # k to the same, untouched Spectrometer.              *)

C15_IndexStability ==
    [][call'.op = "wp_close_spectrometer" =>
        /\ Len(driver') = Len(driver)
        /\ \A j \in 0 .. Len(driver) - 1 :
            /\ driver'[j + 1].dev = driver[j + 1].dev
            /\ j # call'.arg => driver'[j + 1] = driver[j + 1]]_vars

C15_Witness ==
    /\ call.op = "wp_close_spectrometer"
    /\ call.arg = 0
    /\ Len(driver) = MaxDevices
    /\ driver[1].releases = 1
    /\ getSpectrometer(1) = 2
    /\ driver[2].dev = 2
    /\ driver[2].releases = 0

(* C16: after wp_close_all_spectrometers every spectrometer that was       *)
(* registered has been closed, the number of spectrometers is 0 and the    *)
(* lookup of any index finds nothing.                                      *)

C16_CloseAllClearsRegistry ==
    call.op = "wp_close_all_spectrometers" =>
        /\ \A k \in 1..Len(driver) : driver[k].releases >= 1
        /\ getNumberOfSpectrometers = 0
        /\ \A specIndex \in SpecIndices : getSpectrometer(specIndex) = 0

(* C17: after an enumeration that found n spectrometers a lookup yields a  *)
(* Spectrometer exactly when 0 <= index < n; for every other index each    *)
(* call returns WP_ERROR_INVALID_SPECTROMETER (-999 from the temperature   *)
(* getter), issues no transfer and changes no Spectrometer.                *)

IndexedCalls ==
    {"wp_close_spectrometer", "wp_get_pixels", "wp_set_laser_enable",
     "wp_get_detector_temperature_deg_c"}

NoSuchSpectrometer(op) ==
    IF op = "wp_get_detector_temperature_deg_c"
    THEN NO_TEMPERATURE ELSE WP_ERROR_INVALID_SPECTROMETER

C17_InvalidIndexRejected ==
    [][call'.op \in IndexedCalls =>
        /\ call'.spec # 0 <=> (0 <= call'.arg /\ call'.arg < Len(driver))
        /\ ~(0 <= call'.arg /\ call'.arg < Len(driver)) =>
            /\ call'.ret = NoSuchSpectrometer(call'.op)
            /\ xfers' = <<>>
            /\ driver' = driver]_vars

C17_Witness ==
    /\ call.op = "wp_set_laser_enable"
    /\ call.arg = -1
    /\ call.ret = WP_ERROR_INVALID_SPECTROMETER
    /\ Len(driver) = MaxDevices
    /\ xfers = <<>>
    /\ \A k \in 1..Len(driver) : ~driver[k].laserEnabled

(* C18: for every call that copies k items into a caller buffer of         *)
(* capacity len (wp_get_model, wp_get_wavelengths, wp_get_wavenumbers,     *)
(* wp_get_spectrum, wp_get_eeprom) on a valid index the outcome is         *)
(* WP_ERROR_INSUFFICIENT_STORAGE exactly when k > len and WP_SUCCESS when  *)
(* k <= len, and no element at index >= len is written.                    *)

CopyCalls ==
    {"wp_get_model", "wp_get_wavelengths", "wp_get_wavenumbers",
     "wp_get_spectrum", "wp_get_eeprom"}

BeyondBufferUntouched ==
    \A c \in 1..MemCells : c > call.len => call.mem[c] = Stale

C18_BufferOutcome ==
    (call.op \in CopyCalls /\ call.spec # 0) =>
        /\ call.ret = WP_ERROR_INSUFFICIENT_STORAGE <=> call.k > call.len
        /\ call.k <= call.len => call.ret = WP_SUCCESS
        /\ BeyondBufferUntouched

(* C18, amended: as above, except that wp_get_wavenumbers returns          *)
(* WP_ERROR_NO_LASER when the excitation is <= 0 and wp_get_spectrum       *)
(* returns WP_ERROR when the acquisition yields no data, whatever len is.  *)

NothingToCopy ==
    \/ /\ call.op = "wp_get_wavenumbers"
       /\ driver[call.spec].eeprom.excitationNM <= 0
    \/ /\ call.op = "wp_get_spectrum"
       /\ call.k = 0

C18_BufferOutcomeWhenCopying ==
    (call.op \in CopyCalls /\ call.spec # 0) =>
        /\ call.ret = WP_ERROR_INSUFFICIENT_STORAGE <=> call.k > call.len
        /\ (call.k <= call.len /\ ~NothingToCopy) => call.ret = WP_SUCCESS
        /\ (call.op = "wp_get_wavenumbers" /\ NothingToCopy) =>
                call.ret = WP_ERROR_NO_LASER
        /\ (call.op = "wp_get_spectrum" /\ NothingToCopy) => call.ret = WP_ERROR
        /\ BeyondBufferUntouched

C18_Witness ==
    /\ call.op = "wp_get_wavelengths"
    /\ call.spec # 0
    /\ call.len = 1
    /\ call.k = MaxPixels
    /\ call.ret = WP_ERROR_INSUFFICIENT_STORAGE
    /\ call.mem[1] # Stale
    /\ call.mem[2] = Stale

(* C20: wp_get_wavenumbers on a valid index returns WP_ERROR_NO_LASER      *)
(* exactly when the calibrated excitation is <= 0, whatever len is; on an  *)
(* invalid index it returns WP_ERROR_INVALID_SPECTROMETER; it returns      *)
(* WP_ERROR_INSUFFICIENT_STORAGE only when excitation > 0 and len < pixels.*)

C20_NoLaserOutcome ==
    call.op = "wp_get_wavenumbers" =>
        /\ call.spec = 0 => call.ret = WP_ERROR_INVALID_SPECTROMETER
        /\ call.spec # 0 =>
            (call.ret = WP_ERROR_NO_LASER
                <=> driver[call.spec].eeprom.excitationNM <= 0)
        /\ call.ret = WP_ERROR_INSUFFICIENT_STORAGE =>
            /\ call.spec # 0
            /\ driver[call.spec].eeprom.excitationNM > 0
            /\ call.len < driver[call.spec].pixels

C20_Witness ==
    /\ call.op = "wp_get_wavenumbers"
    /\ call.spec # 0
    /\ driver[call.spec].eeprom.excitationNM <= 0
    /\ call.len > driver[call.spec].pixels
    /\ call.ret = WP_ERROR_NO_LASER
    /\ call.mem = FreshMem

(* C21: for every pixel i in 0..pixels-1, wavelengths[i] is                *)
(* c0 + c1*i + c2*i^2 + c3*i^3 + c4*i^4 of the calibration's five          *)
(* coefficients, so the array is determined by the coefficients and the    *)
(* pixel count; coefficients [0,1,0,0,0] give [0,1,2,...].                 *)

RECURSIVE Power(_, _)
Power(b, n) == IF n = 0 THEN 1 ELSE b * Power(b, n - 1)

Polynomial(c, i) ==
    SumSeq([n \in 1..Len(c) |-> c[n] * Power(i, n - 1)])

C21_WavelengthPolynomial ==
    phase # "Constructing" =>
        /\ Len(wavelengths) = pixels
        /\ \A i \in 0 .. pixels - 1 :
            wavelengths[i + 1] = Polynomial(eeprom.wavecalCoeffs, i)
        /\ eeprom.wavecalCoeffs = <<0, 4, 0, 0, 0>> =>
            wavelengths = [k \in 1..pixels |-> 4 * (k - 1)]

C21_Witness ==
    /\ phase = "Ready"
    /\ call.op = "ctor"
    /\ call.ret
    /\ pixels = MaxPixels
    /\ eeprom.wavecalCoeffs = <<3200, 2, 0, 0, 1>>
    /\ wavelengths[MaxPixels] =
           3200 + 2 * (MaxPixels - 1) + Power(MaxPixels - 1, 4)

(* C22: getDetectorTemperatureRaw returns a negative value exactly when    *)
(* the control read returned fewer than 2 bytes (a failed or empty read    *)
(* included); otherwise it returns data[0] * 256 + data[1], a value in     *)
(* [0, 65535].                                                             *)

C22_TemperatureRaw ==
    call.op = "getDetectorTemperatureRaw" =>
        /\ Len(xfers) = 1
        /\ call.ret < 0 <=> xfers[1].result < 2
        /\ xfers[1].result >= 2 =>
            /\ call.ret = call.arg[1] * 256 + call.arg[2]
            /\ call.ret \in 0..65535

C22_Witness ==
    /\ call.op = "getDetectorTemperatureRaw"
    /\ xfers[1].result = 2
    /\ call.arg = <<128, 1>>
    /\ call.ret = 32769

(* C23: getDetectorTemperatureDegC returns a0 + a1*raw + a2*raw^2 of the   *)
(* unsigned 16-bit raw value read by the same call, and -999 when that     *)
(* read fails.                                                             *)

C23_TemperatureDegC ==
    call.op = "getDetectorTemperatureDegC" =>
        IF xfers[1].result < 2
        THEN call.ret = -999 * CoeffDen
        ELSE call.ret = Polynomial(eeprom.adcToDegCCoeffs,
                                   call.arg[1] * 256 + call.arg[2])

(* C24: setIntegrationTimeMS stores the integration time only after a      *)
(* successful send: when the control transfer fails the stored value is    *)
(* the one from before the call.                                           *)

C24_StoredOnlyAfterSend ==
    [][(/\ call'.op = "setIntegrationTimeMS"
        /\ xfers'[1].result < 0) =>
            integrationTimeMS' = integrationTimeMS]_vars

(* C25: for every gain v in [0, 256) the transmitted word has the integer  *)
(* part of v as its high byte and round((v - intPart) * 256), the          *)
(* fraction rounded to the nearest 1/256, as its low byte.                 *)

\* round(n / d) for n >= 0, d > 0, halves upwards
RoundDiv(n, d) == (2 * n + d) \div (2 * d)

C25_GainLowByteRounded ==
    (call.op \in GainNames /\ call.arg >= 0 /\ call.arg < 256 * GainDen) =>
        /\ Len(xfers) = 1
        /\ xfers[1].value \div 256 = call.arg \div GainDen
        /\ xfers[1].value % 256 =
               RoundDiv((call.arg % GainDen) * 256, GainDen)

(* C26: for every in-range degC the word sent by                           *)
(* setDetectorTECSetpointDegC is d0 + d1*degC + d2*degC^2, rounded to the  *)
(* nearest integer, masked to its low 12 bits, and so lies in [0, 4095].   *)

\* the nearest integers to n / d, both neighbours on a tie
Nearest(n, d) ==
    {q \in {(2 * n + d) \div (2 * d), (2 * n + d - 1) \div (2 * d)} :
        /\ 2 * (q * d - n) <= d
        /\ 2 * (n - q * d) <= d}

C26_SetpointWord ==
    (/\ call.op = "setDetectorTECSetpointDegC"
     /\ eeprom.hasCooling
     /\ call.arg >= eeprom.minTemperatureDegC
     /\ call.arg <= eeprom.maxTemperatureDegC) =>
        /\ Len(xfers) = 1
        /\ xfers[1].value \in 0..4095
        /\ xfers[1].value \in
               {q % 4096 : q \in Nearest(Polynomial(eeprom.degCToDACCoeffs, call.arg),
                                         CoeffDen)}

(* C27: every bulk read of getSpectrum uses the timeout                    *)
(* 2 * integrationTimeMS + 2000 of the stored integration time; the stored *)
(* value is within [1, 2^24 - 1], so the budget lies in [2002, 33556430],  *)
(* and every read of one acquisition uses the same budget.                 *)

C27_TimeoutBudget ==
    /\ integrationTimeMS \in 1 .. MAX_UINT24 - 1
    /\ call.op = "getSpectrum" =>
        \A i \in 1..Len(xfers) :
            xfers[i].kind = "bulk" =>
                /\ xfers[i].timeout = 2 * integrationTimeMS + 2000
                /\ xfers[i].timeout \in 2002 .. 33556430

C27_Witness ==
    /\ call.op = "getSpectrum"
    /\ integrationTimeMS = MAX_UINT24 - 1
    /\ Len(xfers) >= 3
    /\ xfers[2].kind = "bulk"
    /\ xfers[2].timeout = 33556430
    /\ xfers[3].timeout = 33556430

(* C30: getSpectrum never reads an element of the decoded sequence that    *)
(* does not exist: spectrum[0] = spectrum[1] is executed only when at      *)
(* least 2 pixel values were decoded.                                      *)

C30_NoReadPastDecoded ==
    call.op = "getSpectrum" =>
        /\ ~call.ub
        /\ call.ret # <<>> => Len(call.decoded) >= 2

(* C28: construction issues its transfers in a fixed order: the firmware   *)
(* and FPGA version queries, then one EEPROM page read per page index      *)
(* 0..N-1 ascending, then the gain, gain-odd, offset and offset-odd        *)
(* pushes in that order, then TEC initialisation, then vertical-ROI        *)
(* priming; nothing is pushed before the last page has been read.          *)

\* the construction step a host-to-device transfer belongs to
PrimingStep(x) ==
    IF x.req = OP_DETECTOR_GAIN THEN 1
    ELSE IF x.req = OP_DETECTOR_GAIN_ODD THEN 2
    ELSE IF x.req = OP_DETECTOR_OFFSET THEN 3
    ELSE IF x.req = OP_DETECTOR_OFFSET_ODD THEN 4
    ELSE IF x.req \in {OP_TEC_SETPOINT, OP_TEC_ENABLE} THEN 5
    ELSE IF x.req = OP_SECOND_TIER THEN 6
    ELSE 0

C28_ConstructionOrder ==
    call.op = "ctor" =>
        /\ Len(xfers) >= 2 + MAX_PAGES
        /\ xfers[1].req = OP_GET_FIRMWARE_VERSION
        /\ xfers[2].req = OP_GET_FPGA_VERSION
        /\ \A i \in 1 .. 2 + MAX_PAGES : xfers[i].dir = DEVICE_TO_HOST
        /\ \A page \in 0 .. MAX_PAGES - 1 :
            /\ xfers[3 + page].req = OP_SECOND_TIER
            /\ xfers[3 + page].value = GET_EEPROM_PAGE
            /\ xfers[3 + page].index = page
        /\ \A i \in 3 + MAX_PAGES .. Len(xfers) :
            /\ xfers[i].dir = HOST_TO_DEVICE
            /\ PrimingStep(xfers[i]) >= 1
            /\ \A j \in 3 + MAX_PAGES .. i - 1 :
                /\ PrimingStep(xfers[j]) <= PrimingStep(xfers[i])
                /\ PrimingStep(xfers[i]) <= 4 =>
                       PrimingStep(xfers[j]) < PrimingStep(xfers[i])

C28_Witness ==
    /\ call.op = "ctor"
    /\ call.ret
    /\ pid = PID_ARM
    /\ eeprom.hasCooling
    /\ Len(xfers) = 2 + MAX_PAGES + 8
    /\ xfers[3 + MAX_PAGES].req = OP_DETECTOR_GAIN
    /\ xfers[Len(xfers)].req = OP_SECOND_TIER

(* C29: on the device family with the minimum-payload quirk no control     *)
(* transfer is shorter than 8 bytes: a send without payload carries 8      *)
(* bytes and a receive requests max(8, expected length); on every other    *)
(* family a send without payload has length 0 and a receive requests the   *)
(* expected length.                                                        *)

\* the length the caller of getCmd asked for
Requested(x) ==
    IF x.req = OP_SECOND_TIER THEN PAGE_SIZE ELSE VERSION_LEN

C29_MinimumPayload ==
    \A i \in 1..Len(xfers) :
        xfers[i].kind = "control" =>
            IF pid = PID_ARM
            THEN /\ xfers[i].len >= 8
                 /\ xfers[i].dir = HOST_TO_DEVICE => xfers[i].len = 8
                 /\ xfers[i].dir = DEVICE_TO_HOST =>
                        xfers[i].len = Max(8, Requested(xfers[i]))
            ELSE /\ xfers[i].dir = HOST_TO_DEVICE => xfers[i].len = 0
                 /\ xfers[i].dir = DEVICE_TO_HOST =>
                        xfers[i].len = Requested(xfers[i])

C29_Witness ==
    /\ pid = PID_ARM
    /\ call.op = "ctor"
    /\ xfers[1].dir = DEVICE_TO_HOST
    /\ xfers[1].len = 8
    /\ xfers[3].len = PAGE_SIZE
    /\ xfers[Len(xfers)].dir = HOST_TO_DEVICE
    /\ xfers[Len(xfers)].len = 8

(* C31: whenever wp_get_spectrum returns WP_SUCCESS for a buffer of        *)
(* len = pixels, exactly pixels cells of the buffer were written by that   *)
(* call, so the pixels cells the proxy reads back all belong to the        *)
(* current acquisition.                                                    *)

C31_SuccessFillsBuffer ==
    (/\ call.op = "wp_get_spectrum"
     /\ call.spec # 0
     /\ call.ret = WP_SUCCESS
     /\ call.len = driver[call.spec].pixels) =>
        /\ call.k = driver[call.spec].pixels
        /\ \A c \in 1..driver[call.spec].pixels : call.mem[c] # Stale

(* C32: across any sequence of wp_close_spectrometer and                   *)
(* wp_close_all_spectrometers calls after one enumeration, the device      *)
(* handle of each Spectrometer is released at most once.                   *)

C32_ReleasedAtMostOnce ==
    \A k \in 1..Len(driver) : driver[k].releases <= 1

(* C33: for any calibration values, a minimum temperature above the        *)
(* maximum included, every TEC-enable transfer is preceded by a            *)
(* TEC-setpoint transfer of the same Spectrometer: one issued earlier in   *)
(* the same call, or one issued by an earlier call, which is what          *)
(* detectorTECSetpointHasBeenSet records.                                  *)

C33_EnableAfterSetpoint ==
    [][\A i \in 1..Len(xfers') :
        xfers'[i].req = OP_TEC_ENABLE =>
            \/ detectorTECSetpointHasBeenSet
            \/ \E j \in 1..(i - 1) : xfers'[j].req = OP_TEC_SETPOINT]_vars

(* C34: the read loop of getSpectrum terminates whenever every bulk read   *)
(* returns: an iteration either leaves the loop or adds at least 2 to the  *)
(* accumulated byte count, it never asks for more than pixels*2 less the   *)
(* accumulated count, at most pixels bulk reads are issued per             *)
(* acquisition and the accumulated count never exceeds pixels*2.           *)

InReadLoop == call.op = "getSpectrum.loop"

BulkReads == Cardinality({i \in 1..Len(xfers) : xfers[i].kind = "bulk"})

C34_ReadLoopTerminates ==
    /\ [](InReadLoop =>
            /\ call.totalBytesRead <= pixels * 2
            /\ BulkReads <= pixels)
    /\ [][(InReadLoop /\ InReadLoop') =>
            /\ xfers'[Len(xfers')].len <= pixels * 2 - call.totalBytesRead
            /\ \/ ~looping(call')
               \/ call'.totalBytesRead >= call.totalBytesRead + 2]_vars
    /\ (InReadLoop ~> call.op = "getSpectrum")

C34_Witness ==
    /\ call.op = "getSpectrum"
    /\ pixels = MaxPixels
    /\ BulkReads = pixels
    /\ Len(call.decoded) = pixels

====
